---- MODULE Spec2Model ----
(***************************************************************************)
(* Ownership and lifetime model of yoga-cpp (include/yoga-cpp/yoga.hpp):   *)
(* Yoga::Node (non-owning handle), Yoga::OwningNode (move-only owner of an *)
(* engine node and of its context) and Yoga::Layout (std::vector of        *)
(* OwningNode plus the root handle).                                       *)
(*                                                                         *)
(* The layout engine is the Yoga C API.  Its node store is modelled by the *)
(* variables children, owner, context and freed; the engine calls the      *)
(* wrapper makes are modelled by what they do to that store:               *)
(*   YGNodeInsertChild  fatal unless the child has no owner; inserts the   *)
(*                      child at the index and sets its owner              *)
(*   YGNodeRemoveChild  removes the child from the list if it is there and *)
(*                      clears its owner                                   *)
(*   YGNodeFree         unlinks the node from its owner, orphans its       *)
(*                      children and releases it                           *)
(*   YGNodeReset        fatal if the node has children or an owner; resets *)
(*                      the node, context pointer included                 *)
(* The build modelled is the one with assertions enabled: a failed assert  *)
(* (or an engine fatal) aborts the process, phase = "aborted".             *)
(***************************************************************************)
EXTENDS Integers, Sequences, FiniteSets, TLC

\* Number of engine nodes ever allocated by one Layout (the root included).
MaxAlloc == 4
\* Context values are 0..MaxCtx; 0 is the default-constructed Ctx.
MaxCtx == 1
\* Number of writes the caller makes through getContext().
MaxWrites == 1
\* Number of Node::reset() calls the caller makes.
MaxResets == 1
\* Number of style setter calls the caller makes.
MaxStyled == 2
\* Number of engine configs allocated, and of places a Config can live in.
MaxConfigs == 3

NULL == 0
NodeIds == 1..MaxAlloc
DefaultCtx == 0
CtxVals == 0..MaxCtx
\* A context pointer is the address of an OwningNode::_context: the vector
\* buffer that holds the OwningNode and the position in it.
NullCtx == <<0, 0>>

VARIABLES
    children,   \* engine: child list of each node
    owner,      \* engine: parent of each node, NULL if none
    context,    \* engine: context pointer slot of each node
    freed,      \* engine: number of YGNodeFree calls on each node
    next,       \* engine: the next node YGNodeNewWithConfig returns
    cleared,    \* nodes whose context slot reset() emptied and nothing set since
    _nodes,     \* Layout::_nodes, the elements of the vector
    buf,        \* identity of the vector's current buffer
    cap,        \* capacity of the vector
    _root,      \* Layout::_root
    writes,     \* number of writes made through getContext()
    resets,     \* number of reset() calls made
    phase,      \* "running", "aborted" (assertion failed), "destroyed"
    last,       \* the last call: name, arguments, result, steps taken
    others,     \* a second Layout: its _nodes, their buffer and capacity
    style,      \* engine: the style of each node
    _config,    \* Layout::_config, the engine config the nodes share
    _contexts,  \* map-backed Layout: _contexts, from engine node to Ctx
    styled,     \* number of style setter calls made
    iter,       \* a ChildIterator the caller holds, and the end() taken with it
    configs,    \* engine: the configs allocated, and the config of each node
    cfgObjs     \* the Config objects: Layout::_config of each Layout, and locals

vars == <<children, owner, context, freed, next, cleared, _nodes, buf, cap, _root, writes, resets,
          phase, last, others, style, _config, _contexts, styled, iter, configs, cfgObjs>>

----------------------------------------------------------------------------
\* Sequence helpers

Range(q) == {q[i] : i \in 1..Len(q)}

InsertAt(q, i, x) == SubSeq(q, 1, i - 1) \o <<x>> \o SubSeq(q, i, Len(q))

IndexOf(q, x) == CHOOSE i \in 1..Len(q) : q[i] = x

RemoveFirst(q, x) ==
    IF x \in Range(q)
    THEN SubSeq(q, 1, IndexOf(q, x) - 1) \o SubSeq(q, IndexOf(q, x) + 1, Len(q))
    ELSE q

----------------------------------------------------------------------------
\* Config objects live in places: the _config member of the first Layout,
\* that of the second Layout, and local variables of the caller.
ConfigIds == 1..MaxConfigs

Places == 1..MaxConfigs

LayoutPlace == 1

OtherPlace == 2

\* a place where no Config is constructed
NoConfig == [live |-> FALSE, ygConfig |-> NULL, ctx |-> DefaultCtx]

----------------------------------------------------------------------------
\* The store the operations work on, as one record.

Store == [children |-> children, owner |-> owner, context |-> context,
          freed |-> freed, next |-> next, cleared |-> cleared,
          nodes |-> _nodes, buf |-> buf,
          cap |-> cap, style |-> style, config |-> _config,
          contexts |-> _contexts, configs |-> configs, cfgObjs |-> cfgObjs,
          place |-> LayoutPlace, failed |-> FALSE, log |-> <<>>]

Fail(s) == [s EXCEPT !.failed = TRUE]

Log(s, what, n) == [s EXCEPT !.log = Append(@, <<what, n>>)]

----------------------------------------------------------------------------
\* Node: the forwarding queries

Node_bool(h) == h # NULL

getChildCount(s, n) == Len(s.children[n])

\* Faulty variant: an index past the end wraps around to the first children.
getChild_Wrap(s, n, index) ==
    IF Len(s.children[n]) = 0 THEN NULL
    ELSE s.children[n][(index % Len(s.children[n])) + 1]

getChild(s, n, index) ==
    IF index < Len(s.children[n]) THEN s.children[n][index + 1] ELSE NULL

getParent(s, n) == s.owner[n]

getContext(s, n) == s.context[n]

setContext(s, n, ptr) ==
    [s EXCEPT !.context[n] = ptr, !.cleared = @ \ {n}]

\* Faulty variant: the Ctx is looked up by the node's number in the
\* collection instead of through the pointer in the engine's slot.
writeContext_ByIndex(s, n, v) ==
    IF n <= Len(s.nodes) THEN [s EXCEPT !.nodes[n].ctx = v] ELSE s

\* getContext()->get() = v: the reference getContext() returns designates
\* the Ctx the slot points at, here the _context at position ptr[2] of the
\* vector's buffer
writeContext(s, n, v) ==
    [s EXCEPT !.nodes[getContext(s, n)[2]].ctx = v]

----------------------------------------------------------------------------
\* Node: style setters and getters.  A YGValue is a value and a unit; the
\* enumerations are their integer values.

\* YGUndefined
NaN == -1

\* YGDirectionInherit, YGDirectionLTR, YGDirectionRTL
Directions == 0..2

\* YGFlexDirectionColumn, ColumnReverse, Row, RowReverse
FlexDirections == 0..3

\* the lengths the caller passes to the setters
Lengths == {1, 100}

YGValueAuto == [value |-> NaN, unit |-> "Auto"]

\* the style of a node YGNodeNewWithConfig returns
DefaultStyle == [direction |-> 0, flexDirection |-> 0,
                 width |-> YGValueAuto, height |-> YGValueAuto]

setDirection(s, this, direction) ==
    IF this = NULL THEN Fail(s) ELSE [s EXCEPT !.style[this].direction = direction]

getDirection(s, this) == s.style[this].direction

setFlexDirection(s, this, flexDirection) ==
    IF this = NULL THEN Fail(s)
    ELSE [s EXCEPT !.style[this].flexDirection = flexDirection]

getFlexDirection(s, this) == s.style[this].flexDirection

setWidth(s, this, width) ==
    IF this = NULL THEN Fail(s)
    ELSE [s EXCEPT !.style[this].width = [value |-> width, unit |-> "Point"]]

\* Faulty variant: the percentage is stored as a length in points.
setWidthPercent_Points(s, this, widthPercent) ==
    IF this = NULL THEN Fail(s)
    ELSE [s EXCEPT !.style[this].width = [value |-> widthPercent, unit |-> "Point"]]

setWidthPercent(s, this, widthPercent) ==
    IF this = NULL THEN Fail(s)
    ELSE [s EXCEPT !.style[this].width = [value |-> widthPercent, unit |-> "Percent"]]

setWidthAuto(s, this) ==
    IF this = NULL THEN Fail(s) ELSE [s EXCEPT !.style[this].width = YGValueAuto]

getWidth(s, this) == s.style[this].width

setHeight(s, this, height) ==
    IF this = NULL THEN Fail(s)
    ELSE [s EXCEPT !.style[this].height = [value |-> height, unit |-> "Point"]]

setHeightPercent(s, this, heightPercent) ==
    IF this = NULL THEN Fail(s)
    ELSE [s EXCEPT !.style[this].height = [value |-> heightPercent, unit |-> "Percent"]]

setHeightAuto(s, this) ==
    IF this = NULL THEN Fail(s) ELSE [s EXCEPT !.style[this].height = YGValueAuto]

getHeight(s, this) == s.style[this].height

\* the setters modelled, the arguments each is called with, the call, and
\* the getter that reads the property back
Setters == {"setDirection", "setFlexDirection", "setWidth", "setWidthPercent",
            "setWidthAuto", "setHeight", "setHeightPercent", "setHeightAuto"}

SetterArgs(op) ==
    CASE op = "setDirection" -> Directions
      [] op = "setFlexDirection" -> FlexDirections
      [] op \in {"setWidthAuto", "setHeightAuto"} -> {NaN}
      [] OTHER -> Lengths

Node_set(s, this, op, v) ==
    CASE op = "setDirection" -> setDirection(s, this, v)
      [] op = "setFlexDirection" -> setFlexDirection(s, this, v)
      [] op = "setWidth" -> setWidth(s, this, v)
      [] op = "setWidthPercent" -> setWidthPercent(s, this, v)
      [] op = "setWidthAuto" -> setWidthAuto(s, this)
      [] op = "setHeight" -> setHeight(s, this, v)
      [] op = "setHeightPercent" -> setHeightPercent(s, this, v)
      [] op = "setHeightAuto" -> setHeightAuto(s, this)

Node_get(s, this, op) ==
    CASE op = "setDirection" -> getDirection(s, this)
      [] op = "setFlexDirection" -> getFlexDirection(s, this)
      [] op \in {"setWidth", "setWidthPercent", "setWidthAuto"} -> getWidth(s, this)
      [] op \in {"setHeight", "setHeightPercent", "setHeightAuto"} -> getHeight(s, this)

----------------------------------------------------------------------------
\* Node: insertChild / removeChild / reset

\* Faulty variant: the index is ignored and the child is appended.
insertChild_Append(s, this, child, index) ==
    IF this = NULL THEN Fail(s)
    ELSE IF child = NULL THEN s
    ELSE IF s.owner[child] # NULL THEN Fail(s)
    ELSE [s EXCEPT !.children[this] = Append(@, child),
                   !.owner[child] = this]

\* Faulty variant: a null child is passed on to YGNodeInsertChild, which
\* dereferences it.
insertChild_NoNullCheck(s, this, child, index) ==
    IF this = NULL \/ child = NULL THEN Fail(s)
    ELSE IF s.owner[child] # NULL THEN Fail(s)
    ELSE [s EXCEPT !.children[this] = InsertAt(@, index + 1, child),
                   !.owner[child] = this]

insertChild(s, this, child, index) ==
    IF this = NULL THEN Fail(s)
    ELSE IF child = NULL THEN s
    ELSE IF s.owner[child] # NULL THEN Fail(s)
    ELSE [s EXCEPT !.children[this] = InsertAt(@, index + 1, child),
                   !.owner[child] = this]

insertChildLast(s, this, child) ==
    IF this = NULL THEN Fail(s)
    ELSE insertChild(s, this, child, getChildCount(s, this))

\* Faulty variant: the child is not only detached: its own child list is dropped
\* as well, as when the engine node is released.
removeChild_Drop(s, this, child) ==
    IF this = NULL THEN Fail(s)
    ELSE IF child = NULL THEN s
    ELSE IF child \notin Range(s.children[this]) THEN s
    ELSE [s EXCEPT !.children = [m \in NodeIds |->
                                   IF m = child THEN <<>>
                                   ELSE IF m = this THEN RemoveFirst(@[m], child)
                                   ELSE @[m]],
                   !.owner = [m \in NodeIds |->
                                   IF m = child \/ m \in Range(s.children[child])
                                   THEN NULL ELSE @[m]]]

\* Faulty variant: the child's parent link is cleared whether or not the
\* child is in this node's list.
removeChild_Orphan(s, this, child) ==
    IF this = NULL THEN Fail(s)
    ELSE IF child = NULL THEN s
    ELSE Log([s EXCEPT !.children[this] = RemoveFirst(@, child),
                       !.owner[child] = NULL],
             "detach", child)

removeChild(s, this, child) ==
    IF this = NULL THEN Fail(s)
    ELSE IF child = NULL THEN s
    ELSE IF child \notin Range(s.children[this]) THEN s
    ELSE Log([s EXCEPT !.children[this] = RemoveFirst(@, child),
                       !.owner[child] = IF @ = this THEN NULL ELSE @],
             "detach", child)

reset(s, this) ==
    IF this = NULL THEN Fail(s)
    ELSE IF Len(s.children[this]) # 0 \/ s.owner[this] # NULL THEN Fail(s)
    ELSE [s EXCEPT !.context[this] = NullCtx, !.cleared = @ \cup {this},
                   !.style[this] = DefaultStyle]

----------------------------------------------------------------------------
\* Node::ChildView / Node::ChildIterator

\* begin() is index 0; end() is the child count at the time end() is called
ChildView_begin(s, node) == 0

ChildView_end(s, node) == getChildCount(s, node)

\* no ChildIterator held
NoIter == [node |-> NULL, index |-> 0, end |-> 0]

\* Faulty variant: operator* reads the child after the one at _index.
ChildIterator_deref_Next(s, node, index) == getChild(s, node, index + 1)

\* operator*: Node{YGNodeGetChild(_ygNode, _index)}
ChildIterator_deref(s, node, index) == getChild(s, node, index)

RECURSIVE getChildren_visit(_, _, _, _)
\* for (auto child : node.getChildren()) with a body that leaves the tree
\* alone: each handle the iterator yields is recorded
getChildren_visit(s, node, index, end) ==
    IF index = end THEN s
    ELSE getChildren_visit(Log(s, "visit", ChildIterator_deref(s, node, index)),
                           node, index + 1, end)

getChildren(s, this) ==
    IF this = NULL THEN Fail(s)
    ELSE getChildren_visit(s, this, ChildView_begin(s, this), ChildView_end(s, this))

----------------------------------------------------------------------------
\* Node: what the forwarding methods do with a handle before the engine is
\* called.  Every method listed begins with assert(_ygNode ...), isDirty
\* excepted, whose body is the engine call alone.

NodeOps == {"reset", "calculateLayout", "hasNewLayout", "isDirty", "markDirty",
            "getChildCount", "getContext", "getChildren", "getChild",
            "insertChild", "removeChild", "getParent", "setWidth",
            "getLayoutWidth"}

NodeOps_asserting == NodeOps \ {"isDirty"}

\* Faulty variant: the method also refuses a handle whose node was freed.
Node_forward_Checked(s, this, op) ==
    IF this = NULL THEN Fail(s)
    ELSE IF s.freed[this] > 0 THEN Fail(s)
    ELSE Log(s, "engine", this)

\* the assertion, if the method has one, then the call into the engine with
\* the handle's pointer
Node_forward(s, this, op) ==
    IF op \in NodeOps_asserting /\ this = NULL THEN Fail(s)
    ELSE Log(s, "engine", this)

----------------------------------------------------------------------------
\* Config

\* YGConfigFree: the engine config is released
YGConfigFree(s, c) ==
    [s EXCEPT !.configs.freed[c] = IF @ < 2 THEN @ + 1 ELSE @,
              !.configs.context[c] = NULL]

\* Config() : _ygConfig{YGConfigNew()} { setContext(&_context); }
Config_ctor(s, p) ==
    LET c == s.configs.next
    IN [s EXCEPT !.configs.next = c + 1,
                 !.configs.context[c] = p,
                 !.cfgObjs[p] = [live |-> TRUE, ygConfig |-> c, ctx |-> DefaultCtx]]

\* ~Config()
Config_dtor(s, p) ==
    LET s1 == IF s.cfgObjs[p].ygConfig # NULL
              THEN YGConfigFree(s, s.cfgObjs[p].ygConfig)
              ELSE s
    IN [s1 EXCEPT !.cfgObjs[p] = NoConfig]

\* Config(Config&& other), constructed at place p
Config_moveCtor(s, p, other) ==
    LET o == s.cfgObjs[other]
        s1 == [s EXCEPT !.cfgObjs[p] = [live |-> TRUE, ygConfig |-> o.ygConfig,
                                        ctx |-> o.ctx],
                        !.cfgObjs[other].ygConfig = NULL]
    IN IF o.ygConfig # NULL THEN [s1 EXCEPT !.configs.context[o.ygConfig] = p] ELSE s1

\* Faulty variant: the config the destination held is dropped, not freed.
Config_moveAssign_NoFree(s, p, other) ==
    LET o == s.cfgObjs[other]
        s2 == [s EXCEPT !.cfgObjs[p].ygConfig = o.ygConfig,
                        !.cfgObjs[other].ygConfig = NULL,
                        !.cfgObjs[p].ctx = o.ctx]
    IN IF p = other THEN s
       ELSE IF o.ygConfig # NULL THEN [s2 EXCEPT !.configs.context[o.ygConfig] = p]
       ELSE s2

\* Config& operator=(Config&& other) of the Config at place p
Config_moveAssign(s, p, other) ==
    LET d == s.cfgObjs[p]
        o == s.cfgObjs[other]
        s1 == IF d.ygConfig # NULL THEN YGConfigFree(s, d.ygConfig) ELSE s
        s2 == [s1 EXCEPT !.cfgObjs[p].ygConfig = o.ygConfig,
                         !.cfgObjs[other].ygConfig = NULL,
                         !.cfgObjs[p].ctx = o.ctx]
    IN IF p = other THEN s    \* if (this != &other)
       ELSE IF o.ygConfig # NULL THEN [s2 EXCEPT !.configs.context[o.ygConfig] = p]
       ELSE s2

----------------------------------------------------------------------------
\* OwningNode

YGNodeFree(s, n) ==
    LET p == s.owner[n]
        kids == Range(s.children[n])
    IN Log([s EXCEPT
               !.children = [m \in NodeIds |->
                               IF m = n THEN <<>>
                               ELSE IF m = p THEN RemoveFirst(s.children[m], n)
                               ELSE s.children[m]],
               !.owner = [m \in NodeIds |->
                               IF m = n \/ m \in kids THEN NULL ELSE s.owner[m]],
               !.context[n] = NullCtx,
               !.cleared = @ \ {n},
               !.style[n] = DefaultStyle,
               !.freed[n] = IF @ < 2 THEN @ + 1 ELSE @],
           "free", n)

\* Faulty variant: a constructor that does not call setContext(&_context).
OwningNode_ctor_NoSetContext(s, b, at) ==
    LET n == s.next
    IN IF s.cfgObjs[s.place].ygConfig = NULL THEN Fail(s)
       ELSE [s EXCEPT !.next = n + 1,
                      !.children[n] = <<>>,
                      !.owner[n] = NULL,
                      !.style[n] = DefaultStyle,
                      !.configs.of[n] = s.cfgObjs[s.place].ygConfig,
                      !.context[n] = NullCtx]

\* OwningNode(const Config&): a new engine node, created with the config of
\* the Layout's _config (YGNodeNewWithConfig is fatal on a null config),
\* whose context slot points at the _context of the OwningNode being
\* constructed at position at of buffer b.
OwningNode_ctor(s, b, at) ==
    LET n == s.next
    IN IF s.cfgObjs[s.place].ygConfig = NULL THEN Fail(s)
       ELSE [s EXCEPT !.next = n + 1,
                      !.children[n] = <<>>,
                      !.owner[n] = NULL,
                      !.style[n] = DefaultStyle,
                      !.configs.of[n] = s.cfgObjs[s.place].ygConfig,
                      !.context[n] = <<b, at>>]

\* ~OwningNode() of a slot value
OwningNode_dtor(s, slot) ==
    IF slot.ygNode # NULL THEN YGNodeFree(s, slot.ygNode) ELSE s

\* Faulty variant: the destination's _context is not taken from the source.
MovedTo_NoContext(src) == [ygNode |-> src.ygNode, ctx |-> DefaultCtx]

\* What a move leaves in the destination and in the source.
MovedTo(src) == [ygNode |-> src.ygNode, ctx |-> src.ctx]
MovedFrom(src) == [ygNode |-> NULL, ctx |-> src.ctx]

\* Faulty variant: a move assignment that leaves the engine's context slot pointing
\* at the source's _context.
OwningNode_moveAssign_NoSetContext(s, dst, src) ==
    LET d == s.nodes[dst]
        o == s.nodes[src]
        s1 == IF d.ygNode # NULL THEN YGNodeFree(s, d.ygNode) ELSE s
    IN [s1 EXCEPT !.nodes[dst] = MovedTo(o), !.nodes[src] = MovedFrom(o)]

\* Faulty variant: a move assignment that drops the node the destination held
\* instead of freeing it.
OwningNode_moveAssign_NoFree(s, dst, src) ==
    LET o == s.nodes[src]
        s2 == [s EXCEPT !.nodes[dst] = MovedTo(o), !.nodes[src] = MovedFrom(o)]
    IN IF o.ygNode # NULL THEN setContext(s2, o.ygNode, <<s2.buf, dst>>) ELSE s2

\* OwningNode& operator=(OwningNode&&) between two elements of the vector
OwningNode_moveAssign(s, dst, src) ==
    LET d == s.nodes[dst]
        o == s.nodes[src]
        s1 == IF d.ygNode # NULL THEN YGNodeFree(s, d.ygNode) ELSE s
        s2 == [s1 EXCEPT !.nodes[dst] = MovedTo(o), !.nodes[src] = MovedFrom(o)]
    IN IF dst = src THEN s    \* if (this != &other)
       ELSE IF o.ygNode # NULL THEN setContext(s2, o.ygNode, <<s2.buf, dst>>)
       ELSE s2

\* Faulty variant: a move constructor that leaves the engine's context slot
\* pointing at the source's _context.
OwningNode_moveCtor_NoSetContext(s, o, b, at) ==
    [dst |-> MovedTo(o), src |-> MovedFrom(o), s |-> s]

\* OwningNode(OwningNode&&): the element o is move-constructed at position
\* at of buffer b.  Gives the store, the new element and what is left of o.
OwningNode_moveCtor(s, o, b, at) ==
    [dst |-> MovedTo(o),
     src |-> MovedFrom(o),
     s   |-> IF o.ygNode # NULL THEN setContext(s, o.ygNode, <<b, at>>) ELSE s]

----------------------------------------------------------------------------
\* std::vector<OwningNode<Ctx>>

RECURSIVE destroyAll(_, _, _)
\* the destructors of slots[i..], first to last
destroyAll(s, slots, i) ==
    IF i > Len(slots) THEN s
    ELSE destroyAll(OwningNode_dtor(s, slots[i]), slots, i + 1)

RECURSIVE relocate(_, _, _)
\* growth: the elements of the old buffer are move-constructed into the new
\* one (s.nodes, being filled), then the old elements are destroyed
relocate(s, old, i) ==
    IF i > Len(old) THEN destroyAll(s, old, 1)
    ELSE LET m == OwningNode_moveCtor(s, old[i], s.buf, i)
         IN relocate([m.s EXCEPT !.nodes = Append(@, m.dst)],
                     [old EXCEPT ![i] = m.src], i + 1)

\* _nodes.emplace_back(_config); the capacity doubles when the vector is full
emplace_back(s) ==
    LET s1 == IF Len(s.nodes) = s.cap
              THEN relocate([s EXCEPT !.buf = @ + 1,
                                      !.cap = IF @ = 0 THEN 1 ELSE 2 * @,
                                      !.nodes = <<>>],
                            s.nodes, 1)
              ELSE s
        at == Len(s1.nodes) + 1
        s2 == OwningNode_ctor(s1, s1.buf, at)
    IN IF s2.failed THEN s2
       ELSE [s2 EXCEPT !.nodes = Append(@, [ygNode |-> s1.next, ctx |-> DefaultCtx])]

RECURSIVE remove_if(_, _, _, _)
\* std::remove_if with the predicate owned.getRef() == nodeRef: result is the
\* next position to fill, first the next position to examine
remove_if(s, result, first, nodeRef) ==
    IF first > Len(s.nodes) THEN [s |-> s, result |-> result]
    ELSE IF s.nodes[first].ygNode = nodeRef
         THEN remove_if(s, result, first + 1, nodeRef)
    ELSE IF result = first
         THEN remove_if(s, result + 1, first + 1, nodeRef)
    ELSE remove_if(OwningNode_moveAssign(s, result, first),
                   result + 1, first + 1, nodeRef)

\* std::erase_if(_nodes, ...): remove_if, then the tail is destroyed
erase_if(s, nodeRef) ==
    LET r == remove_if(s, 1, 1, nodeRef)
        tail == SubSeq(r.s.nodes, r.result, Len(r.s.nodes))
    IN destroyAll([r.s EXCEPT !.nodes = SubSeq(@, 1, r.result - 1)], tail, 1)

----------------------------------------------------------------------------
\* Layout

getRoot == _root

createNode(s) == emplace_back(s)

RECURSIVE removeNode(_, _)
RECURSIVE removeNode_children(_, _, _, _)

\* Faulty variant: the root check is missing.
removeNode_assert_Off(s, nodeRef) == TRUE

\* assert(_nodes.front().getRef() != nodeRef && "Cannot remove the root")
removeNode_assert(s, nodeRef) == s.nodes[1].ygNode # nodeRef

\* if (auto parent = node.getParent(); parent) parent.removeChild(node);
removeNode_detach(s, node) ==
    IF Node_bool(getParent(s, node))
    THEN removeChild(s, getParent(s, node), node)
    ELSE s

\* Faulty variant: the OwningNode is dropped from the collection while its engine
\* node is neither detached from its parent nor freed.
removeNode_Release(s, node) ==
    IF node = NULL \/ ~ removeNode_assert(s, node) THEN Fail(s)
    ELSE [s EXCEPT !.nodes = SelectSeq(@, LAMBDA e : e.ygNode # node)]

\* Faulty variant: the node is erased without its children being removed first.
removeNode_Flat(s, node) ==
    LET s0 == Log(s, "call", node)
    IN IF node = NULL THEN Fail(s0)
       ELSE IF ~ removeNode_assert(s0, node) THEN Fail(s0)
       ELSE erase_if(removeNode_detach(s0, node), node)

removeNode(s, node) ==
    LET s0 == Log(s, "call", node)
    IN IF node = NULL THEN Fail(s0)
       ELSE IF ~ removeNode_assert(s0, node) THEN Fail(s0)
       ELSE LET s1 == removeNode_detach(s0, node)
                s2 == removeNode_children(s1, node, 0, getChildCount(s1, node))
            IN IF s2.failed THEN s2 ELSE erase_if(s2, node)

\* Faulty variant: the loop body runs twice for each child it obtains.
removeNode_children_Twice(s, node, index, end) ==
    IF s.failed \/ index = end THEN s
    ELSE LET child == getChild(s, node, index)
             s1 == removeNode(s, child)
         IN removeNode_children(IF s1.failed THEN s1 ELSE removeNode(s1, child),
                                node, index + 1, end)

\* for (auto child : node.getChildren()) removeNode(child);
\* the ChildIterator holds the node and an index; end() was taken once,
\* before the first iteration; operator* reads the child list as it is now
removeNode_children(s, node, index, end) ==
    IF s.failed \/ index = end THEN s
    ELSE removeNode_children(removeNode(s, getChild(s, node, index)),
                             node, index + 1, end)

addToRoot(s, node) == insertChildLast(s, _root, node)

\* Depth at which a walk that keeps descending is cut off: a tree of
\* MaxAlloc nodes is no deeper than MaxAlloc, so a walk this deep is going
\* round a cycle and never returns.
MaxDepth == MaxAlloc + 1

RECURSIVE walkNode(_, _, _)
RECURSIVE walkNode_children(_, _, _, _, _)

\* visitor(node); for (auto child : node.getChildren()) walkNode(child, visitor);
\* the visitor leaves the tree alone and is recorded
walkNode(s, node, depth) ==
    IF depth > MaxDepth THEN Fail(s)
    ELSE walkNode_children(Log(s, "visit", node), node,
                           ChildView_begin(s, node), ChildView_end(s, node), depth)

walkNode_children(s, node, index, end, depth) ==
    IF s.failed \/ index = end THEN s
    ELSE walkNode_children(walkNode(s, ChildIterator_deref(s, node, index), depth + 1),
                           node, index + 1, end, depth)

\* walkNode(getRoot(), visitor)
walkTree(s) == walkNode(s, getRoot, 1)

\* ~Layout(): the members are destroyed last to first: the vector destroys
\* its elements, then _config is destroyed
Layout_dtor(s) ==
    Config_dtor(destroyAll([s EXCEPT !.nodes = <<>>], s.nodes, 1), s.place)

----------------------------------------------------------------------------
\* The state after Layout(): the root is the only element.

RootNode == 1

\* The buffers of the second Layout's vector are numbered from here on.
OtherBuf == 100

\* The second Layout before it is constructed.
NoLayout == [nodes |-> <<>>, buf |-> OtherBuf, cap |-> 0]

\* The engine with no node and no config allocated, and the members of a
\* Layout before its constructor runs (a config from YGConfigNew has point
\* scale factor 1).
Blank ==
    [children |-> [n \in NodeIds |-> <<>>],
     owner |-> [n \in NodeIds |-> NULL],
     context |-> [n \in NodeIds |-> NullCtx],
     freed |-> [n \in NodeIds |-> 0],
     next |-> RootNode,
     cleared |-> {},
     nodes |-> <<>>, buf |-> 0, cap |-> 0,
     style |-> [n \in NodeIds |-> DefaultStyle],
     config |-> [pointScaleFactor |-> 1],
     contexts |-> <<>>,
     configs |-> [freed |-> [c \in ConfigIds |-> 0],
                  context |-> [c \in ConfigIds |-> NULL],
                  next |-> 1,
                  of |-> [n \in NodeIds |-> NULL]],
     cfgObjs |-> [p \in Places |-> NoConfig],
     place |-> LayoutPlace,
     failed |-> FALSE, log |-> <<>>]

\* Faulty variant: the root keeps the size of a new node.
Layout_ctor_NoSize(s) ==
    emplace_back([Config_ctor(s, s.place) EXCEPT !.config.pointScaleFactor = 1])

\* Layout(): _config.setPointScaleFactor(1.f); the root is emplaced and
\* sized to 100% by 100%
Layout_ctor(s) ==
    LET s1 == [Config_ctor(s, s.place) EXCEPT !.config.pointScaleFactor = 1]
        s2 == emplace_back(s1)
        root == s2.nodes[Len(s2.nodes)].ygNode
    IN setHeightPercent(setWidthPercent(s2, root, 100), root, 100)

Init ==
    /\ children = Layout_ctor(Blank).children
    /\ owner = Layout_ctor(Blank).owner
    /\ context = Layout_ctor(Blank).context
    /\ freed = Layout_ctor(Blank).freed
    /\ next = Layout_ctor(Blank).next
    /\ cleared = Layout_ctor(Blank).cleared
    /\ _nodes = Layout_ctor(Blank).nodes
    /\ buf = Layout_ctor(Blank).buf
    /\ cap = Layout_ctor(Blank).cap
    /\ _root = Layout_ctor(Blank).nodes[1].ygNode
    /\ writes = 0
    /\ resets = 0
    /\ phase = "running"
    /\ last = [op |-> "Layout", node |-> NULL, child |-> NULL, index |-> 0,
               ret |-> Layout_ctor(Blank).nodes[1].ygNode, log |-> <<>>]
    /\ others = NoLayout
    /\ style = Layout_ctor(Blank).style
    /\ _config = Layout_ctor(Blank).config
    /\ _contexts = Layout_ctor(Blank).contexts
    /\ styled = 0
    /\ iter = NoIter
    /\ configs = Layout_ctor(Blank).configs
    /\ cfgObjs = Layout_ctor(Blank).cfgObjs

\* Handles the caller holds to nodes of the Layout's collection.
Handles == {_nodes[i].ygNode : i \in 1..Len(_nodes)} \ {NULL}

Commit(s, l) ==
    /\ children' = s.children
    /\ owner' = s.owner
    /\ context' = s.context
    /\ freed' = s.freed
    /\ next' = s.next
    /\ cleared' = s.cleared
    /\ _nodes' = s.nodes
    /\ buf' = s.buf
    /\ cap' = s.cap
    /\ style' = s.style
    /\ _config' = s.config
    /\ _contexts' = s.contexts
    /\ configs' = s.configs
    /\ cfgObjs' = s.cfgObjs
    /\ phase' = IF s.failed THEN "aborted" ELSE "running"
    /\ last' = [l EXCEPT !.log = s.log]

Call(op, node, child, index, ret) ==
    [op |-> op, node |-> node, child |-> child, index |-> index, ret |-> ret,
     log |-> <<>>]

CreateNode ==
    /\ phase = "running"
    /\ next <= MaxAlloc
    /\ Commit(createNode(Store), Call("createNode", NULL, NULL, 0, next))
    /\ UNCHANGED <<_root, writes, resets, others, styled, iter>>

InsertChild ==
    /\ phase = "running"
    /\ \E p \in Handles, c \in Handles, i \in 0..MaxAlloc :
         /\ i <= Len(children[p])
         /\ owner[c] = NULL    \* YGNodeInsertChild is fatal otherwise
         /\ Commit(insertChild(Store, p, c, i), Call("insertChild", p, c, i, NULL))
    /\ UNCHANGED <<_root, writes, resets, others, styled, iter>>

AddToRoot ==
    /\ phase = "running"
    /\ \E c \in Handles :
         /\ owner[c] = NULL    \* YGNodeInsertChild is fatal otherwise
         /\ Commit(addToRoot(Store, c), Call("addToRoot", _root, c, 0, NULL))
    /\ UNCHANGED <<_root, writes, resets, others, styled, iter>>

RemoveChild ==
    /\ phase = "running"
    /\ \E p \in Handles, c \in Handles :
         /\ c \in Range(children[p])
         /\ Commit(removeChild(Store, p, c), Call("removeChild", p, c, 0, NULL))
    /\ UNCHANGED <<_root, writes, resets, others, styled, iter>>

\* removeNode takes const Node<Ctx>&: the caller's handle is what it was
RemoveNode ==
    /\ phase = "running"
    /\ \E n \in Handles :
         Commit(removeNode(Store, n), Call("removeNode", n, NULL, 0, NULL))
    /\ UNCHANGED <<_root, writes, resets, others, styled, iter>>

Reset ==
    /\ phase = "running"
    /\ resets < MaxResets
    /\ \E n \in Handles :
         \* YGNodeReset is fatal on a node with children or an owner
         /\ Len(children[n]) = 0 /\ owner[n] = NULL
         /\ Commit(reset(Store, n), Call("reset", n, NULL, 0, NULL))
    /\ resets' = resets + 1
    /\ UNCHANGED <<_root, writes, others, styled, iter>>

\* node.getContext()->get() = v: a write through the pointer in the slot;
\* the call records the handle written through and the value written
WriteContext ==
    /\ phase = "running"
    /\ writes < MaxWrites
    /\ \E n \in Handles, v \in CtxVals :
         LET ptr == getContext(Store, n)
         IN /\ ptr # NullCtx
            /\ ptr[1] = buf
            /\ ptr[2] <= Len(_nodes)
            /\ _nodes[ptr[2]].ctx # v
            /\ Commit(writeContext(Store, n, v),
                      Call("writeContext", n, NULL, 0, v))
    /\ writes' = writes + 1
    /\ UNCHANGED <<_root, resets, others, styled, iter>>

DestroyLayout ==
    /\ phase = "running"
    /\ LET s == Layout_dtor(Store)
       IN /\ children' = s.children
          /\ owner' = s.owner
          /\ context' = s.context
          /\ freed' = s.freed
          /\ next' = s.next
          /\ cleared' = s.cleared
          /\ _nodes' = s.nodes
          /\ buf' = s.buf
          /\ cap' = s.cap
          /\ style' = s.style
          /\ _config' = s.config
          /\ _contexts' = s.contexts
          /\ configs' = s.configs
          /\ cfgObjs' = s.cfgObjs
          /\ phase' = "destroyed"
          /\ last' = [Call("~Layout", NULL, NULL, 0, NULL) EXCEPT !.log = s.log]
    /\ UNCHANGED <<_root, writes, resets, others, styled, iter>>

\* for (auto child : n.getChildren()) { ... } without touching the tree
GetChildren ==
    /\ phase = "running"
    /\ \E n \in Handles :
         Commit(getChildren(Store, n), Call("getChildren", n, NULL, 0, NULL))
    /\ UNCHANGED <<_root, writes, resets, others, styled, iter>>

GetChild ==
    /\ phase = "running"
    /\ \E p \in Handles, i \in 0..(MaxAlloc + 1) :
         /\ i <= Len(children[p]) + 1
         /\ Commit(Store, Call("getChild", p, NULL, i, getChild(Store, p, i)))
    /\ UNCHANGED <<_root, writes, resets, others, styled, iter>>

GetParent ==
    /\ phase = "running"
    /\ \E n \in Handles :
         Commit(Store, Call("getParent", n, NULL, 0, getParent(Store, n)))
    /\ UNCHANGED <<_root, writes, resets, others, styled, iter>>

WalkTree ==
    /\ phase = "running"
    /\ Commit(walkTree(Store), Call("walkTree", NULL, NULL, 0, NULL))
    /\ UNCHANGED <<_root, writes, resets, others, styled, iter>>

\* A forwarding method called on a null handle (what getParent() of a
\* parentless node or getChild() past the end returns).  Where no assertion
\* stops the call the engine dereferences a null pointer: the process may
\* crash or go on.
CallOnNull ==
    /\ phase = "running"
    /\ \E op \in NodeOps, crash \in BOOLEAN :
         LET s == Node_forward(Store, NULL, op)
         IN /\ s.failed => crash
            /\ Commit(IF crash THEN Fail(s) ELSE s, Call(op, NULL, NULL, 0, NULL))
    /\ UNCHANGED <<_root, writes, resets, others, styled, iter>>

Next ==
    \/ CreateNode
    \/ InsertChild
    \/ AddToRoot
    \/ RemoveChild
    \/ RemoveNode
    \/ WriteContext
    \/ DestroyLayout

Spec == Init /\ [][Next]_vars

\* The same with Node::reset() among the caller's operations.
NextReset ==
    \/ Next
    \/ Reset

SpecReset == Init /\ [][NextReset]_vars

\* B = std::move(A) between two OwningNodes of the vector, B = std::move(B)
\* included
MoveAssign ==
    /\ phase = "running"
    /\ \E dst \in 1..Len(_nodes), src \in 1..Len(_nodes) :
         Commit(OwningNode_moveAssign(Store, dst, src),
                Call("moveAssign", NULL, NULL, dst, src))
    /\ UNCHANGED <<_root, writes, resets, others, styled, iter>>

\* OwningNode B{std::move(A)}, B constructed in the spare capacity of the
\* vector
MoveConstruct ==
    /\ phase = "running"
    /\ Len(_nodes) < cap
    /\ Len(_nodes) < MaxAlloc
    /\ \E src \in 1..Len(_nodes) :
         LET at == Len(_nodes) + 1
             m == OwningNode_moveCtor(Store, _nodes[src], buf, at)
         IN Commit([m.s EXCEPT !.nodes = Append([@ EXCEPT ![src] = m.src], m.dst)],
                   Call("moveCtor", NULL, NULL, at, src))
    /\ UNCHANGED <<_root, writes, resets, others, styled, iter>>

\* OwningNodes used directly: created, written to, and moved one into
\* another.
NextMove ==
    \/ CreateNode
    \/ WriteContext
    \/ MoveAssign
    \/ MoveConstruct

SpecMove == Init /\ [][NextMove]_vars

\* Handles the caller holds to nodes of the second Layout's collection.
OtherHandles == {others.nodes[i].ygNode : i \in 1..Len(others.nodes)} \ {NULL}

\* The store as the second Layout sees it: the same engine, its own vector.
OtherStore == [Store EXCEPT !.nodes = others.nodes, !.buf = others.buf,
                            !.cap = others.cap, !.place = OtherPlace]

\* The engine part of s becomes the state; the vector part goes to the
\* second Layout.
CommitOther(s, l) ==
    /\ children' = s.children
    /\ owner' = s.owner
    /\ context' = s.context
    /\ freed' = s.freed
    /\ next' = s.next
    /\ cleared' = s.cleared
    /\ others' = [nodes |-> s.nodes, buf |-> s.buf, cap |-> s.cap]
    /\ style' = s.style
    /\ configs' = s.configs
    /\ cfgObjs' = s.cfgObjs
    /\ phase' = IF s.failed THEN "aborted" ELSE "running"
    /\ last' = [l EXCEPT !.log = s.log]
    /\ UNCHANGED <<_nodes, buf, cap, _root, writes, resets, _config, _contexts, styled, iter>>

\* Layout() of the second Layout: _root = Node{_nodes.emplace_back(_config).getRef()}
OtherLayout ==
    /\ phase = "running"
    /\ others = NoLayout
    /\ ~ cfgObjs[OtherPlace].live
    /\ next <= MaxAlloc
    /\ CommitOther(Layout_ctor(OtherStore), Call("Layout", NULL, NULL, 0, next))

\* createNode() of the second Layout
OtherCreateNode ==
    /\ phase = "running"
    /\ others # NoLayout
    /\ cfgObjs[OtherPlace].live
    /\ next <= MaxAlloc
    /\ CommitOther(createNode(OtherStore), Call("createNode", NULL, NULL, 0, next))

\* P.insertChild(C, i) with P of one Layout and C of the other
InsertChildAcross ==
    /\ phase = "running"
    /\ \E p \in Handles \cup OtherHandles, c \in Handles \cup OtherHandles,
          i \in 0..MaxAlloc :
         /\ (p \in Handles) # (c \in Handles)
         /\ i <= Len(children[p])
         /\ owner[c] = NULL    \* YGNodeInsertChild is fatal otherwise
         /\ Commit(insertChild(Store, p, c, i), Call("insertChild", p, c, i, NULL))
    /\ UNCHANGED <<_root, writes, resets, others, styled, iter>>

\* Two Layouts side by side.
NextTwo ==
    \/ CreateNode
    \/ InsertChild
    \/ RemoveChild
    \/ OtherLayout
    \/ OtherCreateNode
    \/ InsertChildAcross

SpecTwo == Init /\ [][NextTwo]_vars

\* A forwarding method called through a handle the caller kept to a node
\* that removeNode has freed.  The handle is not null, the engine is handed
\* a pointer to released memory: the process may crash or go on.
CallOnStale ==
    /\ phase = "running"
    /\ \E n \in NodeIds, op \in NodeOps, crash \in BOOLEAN :
         /\ freed[n] > 0
         /\ LET s == Node_forward(Store, n, op)
            IN /\ s.failed => crash
               /\ Commit(IF crash THEN Fail(s) ELSE s, Call(op, n, NULL, 0, NULL))
    /\ UNCHANGED <<_root, writes, resets, others, styled, iter>>

\* P.removeChild(X) with X not in P's child list
RemoveNonChild ==
    /\ phase = "running"
    /\ \E p \in Handles, x \in Handles :
         /\ x \notin Range(children[p])
         /\ Commit(removeChild(Store, p, x), Call("removeChild", p, x, 0, NULL))
    /\ UNCHANGED <<_root, writes, resets, others, styled, iter>>

\* P.insertChild(X), P.insertChild(X, i), P.removeChild(X) with X an invalid
\* handle, as getParent() of a parentless node or getChild() past the end
\* returns
NullChild ==
    /\ phase = "running"
    /\ \E p \in Handles, i \in 0..MaxAlloc :
         \/ Commit(insertChildLast(Store, p, NULL),
                   Call("insertChildLast", p, NULL, 0, NULL))
         \/ Commit(insertChild(Store, p, NULL, i), Call("insertChild", p, NULL, i, NULL))
         \/ Commit(removeChild(Store, p, NULL), Call("removeChild", p, NULL, 0, NULL))
    /\ UNCHANGED <<_root, writes, resets, others, styled, iter>>

NextNullChild ==
    \/ CreateNode
    \/ InsertChild
    \/ RemoveChild
    \/ NullChild

SpecNullChild == Init /\ [][NextNullChild]_vars

\* The same as Next with handles used where they do not belong.
NextMisuse ==
    \/ Next
    \/ CallOnStale
    \/ RemoveNonChild

SpecMisuse == Init /\ [][NextMisuse]_vars

\* The same as Next with the queries among the caller's operations.
NextQuery ==
    \/ Next
    \/ GetChildren
    \/ GetChild
    \/ GetParent
    \/ WalkTree
    \/ CallOnNull

SpecQuery == Init /\ [][NextQuery]_vars

----------------------------------------------------------------------------
\* A ChildIterator kept by the caller while the children change.

\* auto view = n.getChildren(); auto it = view.begin(); auto e = view.end();
IterBegin ==
    /\ phase = "running"
    /\ \E n \in Handles :
         /\ iter' = [node |-> n, index |-> ChildView_begin(Store, n),
                     end |-> ChildView_end(Store, n)]
         /\ Commit(Store, Call("begin", n, NULL, 0, NULL))
    /\ UNCHANGED <<_root, writes, resets, others, styled>>

\* e = view.end(), called again
IterEnd ==
    /\ phase = "running"
    /\ Node_bool(iter.node)
    /\ iter' = [iter EXCEPT !.end = ChildView_end(Store, iter.node)]
    /\ Commit(Store, Call("end", iter.node, NULL, 0, NULL))
    /\ UNCHANGED <<_root, writes, resets, others, styled>>

\* it = view.begin(), called again
IterRestart ==
    /\ phase = "running"
    /\ Node_bool(iter.node)
    /\ iter' = [iter EXCEPT !.index = ChildView_begin(Store, iter.node)]
    /\ Commit(Store, Call("restart", iter.node, NULL, 0, NULL))
    /\ UNCHANGED <<_root, writes, resets, others, styled>>

\* ++it
IterNext ==
    /\ phase = "running"
    /\ Node_bool(iter.node)
    /\ iter.index < MaxAlloc
    /\ iter' = [iter EXCEPT !.index = @ + 1]
    /\ Commit(Store, Call("++", iter.node, NULL, iter.index + 1, NULL))
    /\ UNCHANGED <<_root, writes, resets, others, styled>>

\* *it: the call records the position and the handle obtained
IterDeref ==
    /\ phase = "running"
    /\ Node_bool(iter.node)
    /\ Commit(Store, Call("*", iter.node, NULL, iter.index,
                          ChildIterator_deref(Store, iter.node, iter.index)))
    /\ UNCHANGED <<_root, writes, resets, others, styled, iter>>

NextIter ==
    \/ CreateNode
    \/ InsertChild
    \/ RemoveChild
    \/ IterBegin
    \/ IterEnd
    \/ IterRestart
    \/ IterNext
    \/ IterDeref

SpecIter == Init /\ [][NextIter]_vars

----------------------------------------------------------------------------
\* Two Layouts moved one into the other.  Layout(Layout&&) and
\* operator=(Layout&&) are defaulted: the members are moved one after the
\* other in the order they are declared, _config, _nodes, _root.

\* the members of the Layout whose _config is at place p
LayoutAt(p) ==
    IF p = LayoutPlace THEN [nodes |-> _nodes, buf |-> buf, cap |-> cap]
    ELSE others

\* Layout b{std::move(a)} with a the first Layout: the Config is
\* move-constructed, the vector takes a's buffer, _root is copied
LayoutMoveCtor ==
    /\ phase = "running"
    /\ others = NoLayout
    /\ ~ cfgObjs[OtherPlace].live
    /\ _nodes # <<>>
    /\ LET s == Config_moveCtor(Store, OtherPlace, LayoutPlace)
       IN /\ configs' = s.configs
          /\ cfgObjs' = s.cfgObjs
          /\ others' = [nodes |-> _nodes, buf |-> buf, cap |-> cap]
          /\ _nodes' = <<>>
          /\ cap' = 0
          /\ last' = Call("Layout&&", OtherPlace, LayoutPlace, 0, NULL)
    /\ UNCHANGED <<children, owner, context, freed, next, cleared, buf, _root, writes,
                   resets, phase, style, _config, _contexts, styled, iter>>

\* dst = std::move(src), first member: _config = std::move(other._config)
LayoutMoveAssignConfig ==
    /\ phase = "running"
    /\ \E dst \in {LayoutPlace, OtherPlace}, src \in {LayoutPlace, OtherPlace} :
         /\ dst # src
         /\ cfgObjs[dst].live
         /\ cfgObjs[src].live
         /\ LayoutAt(src).nodes # <<>>
         /\ LET s == Config_moveAssign(Store, dst, src)
            IN /\ configs' = s.configs
               /\ cfgObjs' = s.cfgObjs
               /\ last' = Call("Layout=", dst, src, 1, NULL)
    /\ phase' = "assigning"
    /\ UNCHANGED <<children, owner, context, freed, next, cleared, _nodes, buf, cap,
                   _root, writes, resets, others, style, _config, _contexts, styled, iter>>

\* dst = std::move(src), the other members: _nodes = std::move(other._nodes)
\* destroys the elements dst held and takes src's buffer; _root is copied
LayoutMoveAssignNodes ==
    /\ phase = "assigning"
    /\ LET dst == last.node
           src == last.child
           from == LayoutAt(src)
           left == [from EXCEPT !.nodes = <<>>, !.cap = 0]
           s == destroyAll([Store EXCEPT !.nodes = <<>>], LayoutAt(dst).nodes, 1)
       IN /\ children' = s.children
          /\ owner' = s.owner
          /\ context' = s.context
          /\ freed' = s.freed
          /\ cleared' = s.cleared
          /\ style' = s.style
          /\ _nodes' = IF dst = LayoutPlace THEN from.nodes ELSE left.nodes
          /\ buf' = IF dst = LayoutPlace THEN from.buf ELSE left.buf
          /\ cap' = IF dst = LayoutPlace THEN from.cap ELSE left.cap
          /\ others' = IF dst = LayoutPlace THEN left ELSE from
          /\ _root' = IF dst = LayoutPlace THEN from.nodes[1].ygNode ELSE _root
          /\ last' = [Call("Layout=", dst, src, 2, NULL) EXCEPT !.log = s.log]
    /\ phase' = "running"
    /\ UNCHANGED <<next, writes, resets, _config, _contexts, styled, iter, configs, cfgObjs>>

\* ~Layout() of the second Layout
DestroyOther ==
    /\ phase = "running"
    /\ cfgObjs[OtherPlace].live
    /\ CommitOther(Layout_dtor(OtherStore), Call("~Layout", OtherPlace, NULL, 0, NULL))

NextLayouts ==
    \/ CreateNode
    \/ RemoveNode
    \/ OtherLayout
    \/ OtherCreateNode
    \/ LayoutMoveCtor
    \/ LayoutMoveAssignConfig
    \/ LayoutMoveAssignNodes
    \/ DestroyLayout
    \/ DestroyOther

SpecLayouts == Init /\ [][NextLayouts]_vars

----------------------------------------------------------------------------
\* Config objects constructed, moved and destroyed by the caller.  The
\* _config of the Layout is reached through getConfig() and can be moved
\* from and assigned to; the other places are local variables.

LocalPlaces == Places \ {LayoutPlace}

\* Config c;
ConfigCtor ==
    /\ phase = "running"
    /\ configs.next <= MaxConfigs
    /\ \E p \in LocalPlaces :
         /\ ~ cfgObjs[p].live
         /\ Commit(Config_ctor(Store, p), Call("Config", p, NULL, NULL, configs.next))
    /\ UNCHANGED <<_root, writes, resets, others, styled, iter>>

\* Config c{std::move(o)}; the call records what o held
ConfigMoveCtor ==
    /\ phase = "running"
    /\ \E p \in LocalPlaces, o \in Places :
         /\ ~ cfgObjs[p].live
         /\ cfgObjs[o].live
         /\ Commit(Config_moveCtor(Store, p, o),
                   Call("Config&&", p, o, NULL, cfgObjs[o].ygConfig))
    /\ UNCHANGED <<_root, writes, resets, others, styled, iter>>

\* c = std::move(o), c = std::move(c) included; the call records what c
\* and o held
ConfigMoveAssign ==
    /\ phase = "running"
    /\ \E p \in Places, o \in Places :
         /\ cfgObjs[p].live
         /\ cfgObjs[o].live
         /\ Commit(Config_moveAssign(Store, p, o),
                   Call("Config=", p, o, cfgObjs[p].ygConfig, cfgObjs[o].ygConfig))
    /\ UNCHANGED <<_root, writes, resets, others, styled, iter>>

\* a local Config goes out of scope; the call records what it held
ConfigDtor ==
    /\ phase = "running"
    /\ \E p \in LocalPlaces :
         /\ cfgObjs[p].live
         /\ Commit(Config_dtor(Store, p), Call("~Config", p, NULL, cfgObjs[p].ygConfig, NULL))
    /\ UNCHANGED <<_root, writes, resets, others, styled, iter>>

NextConfig ==
    \/ ConfigCtor
    \/ ConfigMoveCtor
    \/ ConfigMoveAssign
    \/ ConfigDtor

SpecConfig == Init /\ [][NextConfig]_vars

\* the live Config objects that hold the engine config c
ConfigHolders(c) == {p \in Places : cfgObjs[p].live /\ cfgObjs[p].ygConfig = c}

----------------------------------------------------------------------------
\* Style setters called on the nodes of a Layout.

\* node.setX(v): the call records the handle and the argument
SetStyle ==
    /\ phase = "running"
    /\ styled < MaxStyled
    /\ \E n \in Handles, op \in Setters :
         \E v \in SetterArgs(op) :
            Commit(Node_set(Store, n, op, v), Call(op, n, NULL, 0, v))
    /\ styled' = styled + 1
    /\ UNCHANGED <<_root, writes, resets, others, iter>>

NextStyle ==
    \/ CreateNode
    \/ AddToRoot
    \/ SetStyle

SpecStyle == Init /\ [][NextStyle]_vars

\* the value a getter is documented to return after the setter op was
\* called with v: a length in points, a percentage, auto, or the enumerator
ValueSet(op, v) ==
    CASE op \in {"setDirection", "setFlexDirection"} -> v
      [] op \in {"setWidth", "setHeight"} -> [value |-> v, unit |-> "Point"]
      [] op \in {"setWidthPercent", "setHeightPercent"} -> [value |-> v, unit |-> "Percent"]
      [] op \in {"setWidthAuto", "setHeightAuto"} -> [value |-> NaN, unit |-> "Auto"]

----------------------------------------------------------------------------
\* The map-backed variant of the layer: an OwningNode is the engine pointer
\* alone, and the Layout keeps the contexts in _contexts, keyed by node.

\* where the engine's context slot points: the entry of _contexts at key n
MapEntry(n) == <<-1, n>>

\* OwningNode() : base{YGNodeNew()}
Map_OwningNode_ctor(s) ==
    LET n == s.next
    IN [s EXCEPT !.next = n + 1,
                 !.children[n] = <<>>,
                 !.owner[n] = NULL,
                 !.style[n] = DefaultStyle,
                 !.context[n] = NullCtx]

\* OwningNode(OwningNode&&): base{other._ygNode}, other._ygNode = nullptr
Map_OwningNode_moveCtor(o) ==
    [dst |-> [ygNode |-> o.ygNode], src |-> [ygNode |-> NULL]]

\* OwningNode& operator=(OwningNode&&): the base assignment copies the
\* pointer, then the source is nulled; what the destination held is not
\* looked at
Map_OwningNode_moveAssign(s, dst, src) ==
    LET s1 == [s EXCEPT !.nodes[dst] = [ygNode |-> s.nodes[src].ygNode]]
    IN [s1 EXCEPT !.nodes[src] = [ygNode |-> NULL]]

\* ~OwningNode()
Map_OwningNode_dtor(s, slot) ==
    IF slot.ygNode # NULL THEN YGNodeFree(s, slot.ygNode) ELSE s

RECURSIVE Map_destroyAll(_, _, _)
Map_destroyAll(s, slots, i) ==
    IF i > Len(slots) THEN s
    ELSE Map_destroyAll(Map_OwningNode_dtor(s, slots[i]), slots, i + 1)

RECURSIVE Map_relocate(_, _, _)
Map_relocate(s, old, i) ==
    IF i > Len(old) THEN Map_destroyAll(s, old, 1)
    ELSE LET m == Map_OwningNode_moveCtor(old[i])
         IN Map_relocate([s EXCEPT !.nodes = Append(@, m.dst)],
                         [old EXCEPT ![i] = m.src], i + 1)

\* _nodes.emplace_back()
Map_emplace_back(s) ==
    LET s1 == IF Len(s.nodes) = s.cap
              THEN Map_relocate([s EXCEPT !.buf = @ + 1,
                                          !.cap = IF @ = 0 THEN 1 ELSE 2 * @,
                                          !.nodes = <<>>],
                                s.nodes, 1)
              ELSE s
        s2 == Map_OwningNode_ctor(s1)
    IN [s2 EXCEPT !.nodes = Append(@, [ygNode |-> s1.next])]

RECURSIVE Map_remove_if(_, _, _, _)
Map_remove_if(s, result, first, nodeRef) ==
    IF first > Len(s.nodes) THEN [s |-> s, result |-> result]
    ELSE IF s.nodes[first].ygNode = nodeRef
         THEN Map_remove_if(s, result, first + 1, nodeRef)
    ELSE IF result = first
         THEN Map_remove_if(s, result + 1, first + 1, nodeRef)
    ELSE Map_remove_if(Map_OwningNode_moveAssign(s, result, first),
                       result + 1, first + 1, nodeRef)

\* std::erase_if(_nodes, ...)
Map_erase_if(s, nodeRef) ==
    LET r == Map_remove_if(s, 1, 1, nodeRef)
        tail == SubSeq(r.s.nodes, r.result, Len(r.s.nodes))
    IN Map_destroyAll([r.s EXCEPT !.nodes = SubSeq(@, 1, r.result - 1)], tail, 1)

\* Node::setContext, insertChild, removeChild, getParent of the variant:
\* no assertion; insertChild and removeChild return on a null child
Map_setContext(s, this, ptr) == [s EXCEPT !.context[this] = ptr]

Map_insertChildLast(s, this, child) ==
    IF child = NULL THEN s
    ELSE [s EXCEPT !.children[this] = Append(@, child), !.owner[child] = this]

Map_removeChild(s, this, child) ==
    IF child = NULL \/ child \notin Range(s.children[this]) THEN s
    ELSE [s EXCEPT !.children[this] = RemoveFirst(@, child),
                   !.owner[child] = IF @ = this THEN NULL ELSE @]

Map_getParent(s, this) == s.owner[this]

\* Layout::createNode: _contexts[ref] = Ctx{}, and the slot points at it
Map_createNode(s) ==
    LET s1 == Map_emplace_back(s)
        ref == s1.nodes[Len(s1.nodes)].ygNode
        s2 == [s1 EXCEPT !.contexts =
                  [k \in DOMAIN @ \cup {ref} |-> IF k = ref THEN DefaultCtx ELSE @[k]]]
    IN Map_setContext(s2, ref, MapEntry(ref))

\* Layout::removeNode: the context is erased, the node detached from its
\* parent, and its OwningNode erased from _nodes
Map_removeNode(s, node) ==
    LET nodeRef == node
        s1 == [s EXCEPT !.contexts = [k \in DOMAIN @ \ {nodeRef} |-> @[k]]]
        parent == Map_getParent(s1, node)
        s2 == IF parent # NULL THEN Map_removeChild(s1, parent, node) ELSE s1
    IN Log(Map_erase_if(Log(s2, "call", nodeRef), nodeRef), "erased", nodeRef)

Map_addToRoot(s, node) == Map_insertChildLast(s, _root, node)

\* Layout() : _root{createNode()}, sized to 100% by 100%, scale factor 1
Map_Layout_ctor(s) ==
    LET s1 == Map_createNode(s)
        root == s1.nodes[Len(s1.nodes)].ygNode
    IN [s1 EXCEPT !.style[root].width = [value |-> 100, unit |-> "Percent"],
                  !.style[root].height = [value |-> 100, unit |-> "Percent"],
                  !.config.pointScaleFactor = 1]

\* ~Layout(): _contexts, then _nodes
Map_Layout_dtor(s) ==
    Map_destroyAll([s EXCEPT !.nodes = <<>>, !.contexts = <<>>], s.nodes, 1)

InitMap ==
    /\ children = Map_Layout_ctor(Blank).children
    /\ owner = Map_Layout_ctor(Blank).owner
    /\ context = Map_Layout_ctor(Blank).context
    /\ freed = Map_Layout_ctor(Blank).freed
    /\ next = Map_Layout_ctor(Blank).next
    /\ cleared = Map_Layout_ctor(Blank).cleared
    /\ _nodes = Map_Layout_ctor(Blank).nodes
    /\ buf = Map_Layout_ctor(Blank).buf
    /\ cap = Map_Layout_ctor(Blank).cap
    /\ _root = Map_Layout_ctor(Blank).nodes[1].ygNode
    /\ writes = 0
    /\ resets = 0
    /\ phase = "running"
    /\ last = [op |-> "Layout", node |-> NULL, child |-> NULL, index |-> 0,
               ret |-> Map_Layout_ctor(Blank).nodes[1].ygNode, log |-> <<>>]
    /\ others = NoLayout
    /\ style = Map_Layout_ctor(Blank).style
    /\ _config = Map_Layout_ctor(Blank).config
    /\ _contexts = Map_Layout_ctor(Blank).contexts
    /\ styled = 0
    /\ iter = NoIter
    /\ configs = Map_Layout_ctor(Blank).configs
    /\ cfgObjs = Map_Layout_ctor(Blank).cfgObjs

MapCreateNode ==
    /\ phase = "running"
    /\ next <= MaxAlloc
    /\ Commit(Map_createNode(Store), Call("createNode", NULL, NULL, 0, next))
    /\ UNCHANGED <<_root, writes, resets, others, styled, iter>>

MapAddToRoot ==
    /\ phase = "running"
    /\ _root \in Handles      \* the root has not been removed
    /\ \E c \in Handles :
         /\ owner[c] = NULL    \* YGNodeInsertChild is fatal otherwise
         /\ Commit(Map_addToRoot(Store, c), Call("addToRoot", _root, c, 0, NULL))
    /\ UNCHANGED <<_root, writes, resets, others, styled, iter>>

MapRemoveNode ==
    /\ phase = "running"
    /\ \E n \in Handles :
         Commit(Map_removeNode(Store, n), Call("removeNode", n, NULL, 0, NULL))
    /\ UNCHANGED <<_root, writes, resets, others, styled, iter>>

MapDestroyLayout ==
    /\ phase = "running"
    /\ LET s == Map_Layout_dtor(Store)
       IN /\ children' = s.children
          /\ owner' = s.owner
          /\ context' = s.context
          /\ freed' = s.freed
          /\ next' = s.next
          /\ cleared' = s.cleared
          /\ _nodes' = s.nodes
          /\ buf' = s.buf
          /\ cap' = s.cap
          /\ style' = s.style
          /\ _config' = s.config
          /\ _contexts' = s.contexts
          /\ configs' = s.configs
          /\ cfgObjs' = s.cfgObjs
          /\ phase' = "destroyed"
          /\ last' = [Call("~Layout", NULL, NULL, 0, NULL) EXCEPT !.log = s.log]
    /\ UNCHANGED <<_root, writes, resets, others, styled, iter>>

NextMap ==
    \/ MapCreateNode
    \/ MapAddToRoot
    \/ MapRemoveNode
    \/ MapDestroyLayout

SpecMap == InitMap /\ [][NextMap]_vars

----------------------------------------------------------------------------
\* Derived views used by the properties

\* the nodes held by the OwningNodes of a store's collection
Held(s) == {s.nodes[i].ygNode : i \in 1..Len(s.nodes)} \ {NULL}

\* how many OwningNodes of the collection hold n
Holders(s, n) == Cardinality({i \in 1..Len(s.nodes) : s.nodes[i].ygNode = n})

Kids(s, X) == UNION {Range(s.children[m]) : m \in X}

RECURSIVE Closure(_, _, _)
Closure(s, X, k) == IF k = 0 THEN X ELSE Closure(s, X \cup Kids(s, X), k - 1)

\* the nodes below n in the engine tree
Descendants(s, n) == Closure(s, Range(s.children[n]), MaxAlloc)

Subtree(s, n) == {n} \cup Descendants(s, n)

\* the Ctx that getContext() of a handle to n refers to, as a one-element
\* sequence; empty when the slot is null or points at no live OwningNode
ContextOf(s, n) ==
    LET ptr == getContext(s, n)
    IN IF ptr # NullCtx /\ ptr[1] = s.buf /\ ptr[2] \in 1..Len(s.nodes)
       THEN <<s.nodes[ptr[2]].ctx>>
       ELSE <<>>

Allocated == 1..(next - 1)

----------------------------------------------------------------------------
\* C1: over createNode, removeNode, the moves the vector makes when it grows
\* and when erase_if shifts, and ~Layout, no engine node is freed twice, a
\* node is allocated exactly as long as an OwningNode of the collection
\* holds it, and once the Layout is destroyed every allocated node has been
\* freed exactly once.
C1_FreedExactlyOnce ==
    /\ \A n \in NodeIds : freed[n] <= 1
    /\ \A n \in Allocated : (freed[n] = 0) <=> (Holders(Store, n) = 1)
    /\ \A n \in Allocated : Holders(Store, n) <= 1
    /\ phase = "destroyed" => \A n \in Allocated : freed[n] = 1

\* the Layout was destroyed after every node had been created and after
\* removeNode had already freed some of them
C1_Witness ==
    /\ phase = "destroyed"
    /\ next = MaxAlloc + 1
    /\ Len(last.log) \in 1..(MaxAlloc - 2)

\* C2 (as claimed): removeNode(N) on a non-root node, whatever the shape of
\* N's subtree, returns with N and every descendant of N erased from the
\* collection, freed, and without a context.
C2_SubtreeRemoved ==
    [][(/\ last'.op = "removeNode"
        /\ last'.node # _root
        /\ _root \notin Subtree(Store, last'.node))
       => (/\ phase' = "running"
           /\ \A d \in Subtree(Store, last'.node) :
                /\ d \notin Held(Store')
                /\ freed'[d] = 1
                /\ ContextOf(Store', d) = <<>>)]_vars

\* C3 (as claimed): after removeNode(N) returns, the handle the caller
\* passed tests as invalid.
C3_HandleInvalidated ==
    (last.op = "removeNode" /\ phase = "running") => ~ Node_bool(last.node)

\* C4: removeNode(root) fails its assertion with the engine store, the
\* collection and the root handle exactly as before the call; the root is
\* still live.
C4_RootRemovalRejected ==
    [][(phase = "running" /\ last'.op = "removeNode" /\ last'.node = _root)
       => (/\ phase' = "aborted"
           /\ UNCHANGED <<children, owner, context, freed, next, cleared,
                          _nodes, buf, cap, _root>>
           /\ freed'[_root] = 0
           /\ _root \in Held(Store'))]_vars

\* removeNode(root) was called on a Layout that holds other nodes, some of
\* them attached to the root
C4_Witness ==
    /\ last.op = "removeNode"
    /\ last.node = _root
    /\ phase = "aborted"
    /\ Len(children[_root]) > 0

\* C5: until the Layout is destroyed the root's engine node is live, is the
\* first element of the collection and is what getRoot() returns.
C5_RootStays ==
    phase # "destroyed" =>
        /\ freed[RootNode] = 0
        /\ Len(_nodes) >= 1
        /\ _nodes[1].ygNode = RootNode
        /\ getRoot = RootNode

\* removeNode was called on another node that had the root among its
\* descendants, and the recursion reached the root
C5_Witness ==
    /\ last.op = "removeNode"
    /\ last.node # _root
    /\ <<"call", _root>> \in Range(last.log)
    /\ Len(last.log) > 3

\* C6: until the Layout is destroyed, every engine node that is a
\* descendant of the root is held by exactly one OwningNode of the
\* collection.
C6_DescendantsOwned ==
    phase # "destroyed" =>
        \A n \in Descendants(Store, _root) : Holders(Store, n) = 1

\* a removeNode has returned and the root still has descendants two levels
\* deep
C6_Witness ==
    /\ last.op = "removeNode"
    /\ phase = "running"
    /\ \E n \in Range(children[_root]) : Len(children[n]) > 0

C9_InsertChildPost ==
    [][(/\ last'.op = "insertChild"
        /\ owner[last'.child] = NULL
        /\ last'.index <= Len(children[last'.node]))
       => LET P == last'.node
              C == last'.child
              i == last'.index
          IN /\ phase' = "running"
             /\ getChild(Store', P, i) = C
             /\ getParent(Store', C) = P
             /\ getChildCount(Store', P) = getChildCount(Store, P) + 1
             /\ RemoveFirst(children'[P], C) = children[P]]_vars

\* a child was inserted before an existing child
C9_Witness ==
    /\ last.op = "insertChild"
    /\ phase = "running"
    /\ last.index + 1 < Len(children[last.node])

Visited(log) == [k \in 1..Len(log) |-> log[k][2]]

C15_NullHandleAsserts ==
    (last.op \in NodeOps /\ ~ Node_bool(last.node)) =>
        /\ phase = "aborted"
        /\ <<"engine", NULL>> \notin Range(last.log)

\* C18 (as claimed): walkTree returns, having visited every node reachable
\* from the root exactly once and no other node, each node before its
\* descendants and the children of a node from left to right.
C18_PreOrder ==
    last.op = "walkTree" =>
        LET v == Visited(last.log)
            At(n) == CHOOSE k \in 1..Len(v) : v[k] = n
        IN /\ phase = "running"
           /\ Range(v) = Subtree(Store, _root)
           /\ Cardinality(Range(v)) = Len(v)
           /\ v[1] = _root
           /\ \A n \in Range(v) : \A d \in Descendants(Store, n) : At(n) < At(d)
           /\ \A n \in Range(v) : \A a, b \in 1..Len(children[n]) :
                a < b => At(children[n][a]) < At(children[n][b])

\* C19: on a valid node, getChild(i) returns a valid handle, the child at
\* index i, exactly when i < getChildCount(), and a null handle otherwise;
\* getParent() returns a null handle exactly when no child list holds the
\* node, and otherwise the node whose child list holds it; neither call
\* fails.
C19_NullableResults ==
    /\ (last.op = "getChild" /\ Node_bool(last.node)) =>
          /\ phase = "running"
          /\ Node_bool(last.ret) <=> last.index < getChildCount(Store, last.node)
          /\ Node_bool(last.ret) => last.ret = children[last.node][last.index + 1]
    /\ (last.op = "getParent" /\ Node_bool(last.node)) =>
          /\ phase = "running"
          /\ ~ Node_bool(last.ret) <=>
                 (\A m \in NodeIds : last.node \notin Range(children[m]))
          /\ Node_bool(last.ret) => last.node \in Range(children[last.ret])

\* getChild was called past the end of a node that has children, and found
\* no child there
C19_Witness ==
    /\ last.op = "getChild"
    /\ Node_bool(last.node)
    /\ last.index > Len(children[last.node])
    /\ Len(children[last.node]) > 0
    /\ ~ Node_bool(last.ret)

\* the handles a caller can come to hold: those createNode and getRoot
\* returned, and those getChild and getParent return for them
Obtainable(s) ==
    (Held(s) \cup {getRoot}
       \cup {getChild(s, p, i) : p \in Held(s), i \in 0..MaxAlloc}
       \cup {getParent(s, c) : c \in Held(s)}) \ {NULL}

\* C12: a value written through getContext() of one handle is what
\* getContext() reads through every handle that wraps the same engine
\* node, however that handle was obtained (a copy, getChild, getParent,
\* getChildren, getRoot); handles to other nodes read what they read before.
C12_SameContext ==
    [][last'.op = "writeContext"
       => LET n == last'.node
              v == last'.ret
          IN /\ ContextOf(Store, n) # <<v>>
             /\ \A h \in Obtainable(Store') :
                  /\ h = n => ContextOf(Store', h) = <<v>>
                  /\ h # n => ContextOf(Store', h) = ContextOf(Store, h)
             /\ \A p \in Held(Store'), i \in 0..MaxAlloc :
                  getChild(Store', p, i) = n
                     => ContextOf(Store', ChildIterator_deref(Store', p, i)) = <<v>>
             /\ \A c \in Held(Store') :
                  getParent(Store', c) = n
                     => ContextOf(Store', getParent(Store', c)) = <<v>>]_vars

\* a context was written through a handle to a node that is a child and a
\* parent, and whose OwningNode an earlier removeNode had shifted
C12_Witness ==
    /\ last.op = "writeContext"
    /\ Node_bool(getParent(Store, last.node))
    /\ Node_bool(getChild(Store, last.node, 0))
    /\ context[last.node][2] # last.node

C14_MoveTransfers ==
    [][(last'.op \in {"moveAssign", "moveCtor"})
       => LET B == last'.index
              A == last'.ret
              held == _nodes[A].ygNode
              old == IF last'.op = "moveAssign" THEN _nodes[B].ygNode ELSE NULL
          IN IF A = B
             THEN UNCHANGED <<children, owner, context, freed, next, _nodes, buf, cap>>
             ELSE /\ phase' = "running"
                  /\ ~ Node_bool(_nodes'[A].ygNode)
                  /\ _nodes'[B].ygNode = held
                  /\ _nodes'[B].ctx = _nodes[A].ctx
                  /\ Node_bool(held) => /\ context'[held] = <<buf', B>>
                                        /\ ContextOf(Store', held) = <<_nodes[A].ctx>>
                                        /\ freed'[held] = freed[held]
                  /\ Node_bool(old) => /\ old # held
                                       /\ freed[old] = 0
                                       /\ freed'[old] = 1
                                       /\ last'.log = << <<"free", old>> >>
                  /\ ~ Node_bool(old) => last'.log = <<>>
                  /\ \A n \in NodeIds \ {old} : freed'[n] = freed[n]
                  /\ \A i \in 1..Len(_nodes) :
                       i \notin {A, B} => _nodes'[i] = _nodes[i]]_vars

\* an OwningNode that holds a node with a written context was move-assigned
\* to one that held another node, which was freed
C14_Witness ==
    /\ last.op = "moveAssign"
    /\ last.index # last.ret
    /\ Len(last.log) = 1
    /\ Node_bool(_nodes[last.index].ygNode)
    /\ _nodes[last.index].ctx = MaxCtx

\* C16 (as claimed): P.insertChild(C) with P of one Layout and C of another
\* fails, and no node of one Layout is ever below a node of the other.
C16_CrossLayoutRejected ==
    /\ (/\ last.op = "insertChild"
        /\ (last.node \in Handles) # (last.child \in Handles))
          => phase = "aborted"
    /\ \A n \in Handles, m \in OtherHandles :
          /\ m \notin Descendants(Store, n)
          /\ n \notin Descendants(Store, m)

\* the nodes whose child list holds n
ParentsOf(s, n) == {m \in NodeIds : n \in Range(s.children[m])}

\* C17 (as claimed): the parent/child structure is a forest: a node is in
\* at most one child list, at most once, it is in P's child list exactly
\* when its getParent() is P, and no node is below itself.
C17_Forest ==
    /\ \A n \in NodeIds : Cardinality(ParentsOf(Store, n)) <= 1
    /\ \A m \in NodeIds : Cardinality(Range(children[m])) = Len(children[m])
    /\ \A P, C \in NodeIds : C \in Range(children[P]) <=> getParent(Store, C) = P
    /\ \A n \in NodeIds : n \notin Descendants(Store, n)

\* C20: createNode leaves every node the collection held in it, with the
\* parent, the child list and the context value it had, and leaves the set
\* of nodes reachable from the root as it was, the new node outside it; a
\* node comes to be reachable from the root only by insertChild or
\* addToRoot; addToRoot(node) of a parentless node appends it to the root's
\* child list.
C20_CreateNodeFrame ==
    [][/\ last'.op = "createNode"
          => LET h == last'.ret
             IN /\ h \notin Held(Store)
                /\ Held(Store') = Held(Store) \cup {h}
                /\ \A n \in Held(Store) :
                     /\ children'[n] = children[n]
                     /\ getParent(Store', n) = getParent(Store, n)
                     /\ ContextOf(Store', n) = ContextOf(Store, n)
                /\ Subtree(Store', _root) = Subtree(Store, _root)
                /\ h \notin Subtree(Store', _root)
       /\ \A n \in NodeIds :
            (n \in Subtree(Store', _root) /\ n \notin Subtree(Store, _root))
               => last'.op \in {"insertChild", "addToRoot"}
       /\ (last'.op = "addToRoot" /\ owner[last'.child] = NULL)
          => /\ phase' = "running"
             /\ children'[_root] = Append(children[_root], last'.child)
             /\ getParent(Store', last'.child) = _root
             /\ last'.child \in Subtree(Store', _root)]_vars

\* createNode has just grown the collection from two elements to three,
\* reallocating it, while the root had a child and a context had been
\* written
C20_Witness ==
    /\ last.op = "createNode"
    /\ Len(_nodes) = 3
    /\ \A n \in NodeIds : freed[n] = 0
    /\ Len(children[_root]) > 0
    /\ \E i \in 1..Len(_nodes) : _nodes[i].ctx = MaxCtx

C22_DetachedReusable ==
    [][(/\ last'.op = "insertChild"
        /\ owner[last'.child] = NULL
        /\ last'.index <= Len(children[last'.node]))
       => LET P == last'.node
              C == last'.child
          IN \A s2 \in {removeChild(Store', P, C)} :
               /\ phase' = "running"
               /\ ~ s2.failed
               /\ s2.children = children
               /\ s2.owner = owner
               /\ s2.freed = freed
               /\ s2.nodes = _nodes
               /\ \A Q \in Held(s2), j \in 0..MaxAlloc :
                    j <= getChildCount(s2, Q) =>
                       \A s3 \in {insertChild(s2, Q, C, j)} :
                          /\ ~ s3.failed
                          /\ getChild(s3, Q, j) = C
                          /\ getParent(s3, C) = Q
                          /\ getChildCount(s3, Q) = getChildCount(s2, Q) + 1
                          /\ RemoveFirst(s3.children[Q], C) = s2.children[Q]]_vars

\* a node with a child of its own was inserted in front of another child
C22_Witness ==
    /\ last.op = "insertChild"
    /\ phase = "running"
    /\ last.node # last.child
    /\ Len(children[last.child]) > 0
    /\ last.index + 1 < Len(children[last.node])

\* C23: P.removeChild(X) with X not in P's child list changes nothing: every
\* child list, every parent link, the collection and every context are as
\* before, and nothing is freed.
C23_RemoveNonChildNoop ==
    [][(/\ last'.op = "removeChild"
        /\ last'.node \in Handles
        /\ last'.child \in Handles
        /\ last'.child \notin Range(children[last'.node]))
       => /\ phase' = "running"
          /\ UNCHANGED <<children, owner, context, freed, next, _nodes, buf, cap>>
          /\ last'.log = <<>>]_vars

\* removeChild was called on a node that has children, with a node that
\* is the child of another node
C23_Witness ==
    /\ last.op = "removeChild"
    /\ phase = "running"
    /\ last.node \in Handles
    /\ last.child \in Handles
    /\ last.child \notin Range(children[last.node])
    /\ Len(children[last.node]) > 0
    /\ Node_bool(getParent(Store, last.child))
    /\ last.log = <<>>

----------------------------------------------------------------------------
\* C24: in the map-backed variant, the node Layout::removeNode erases has
\* been freed exactly once when the call returns, and no engine node is
\* left allocated while no OwningNode of the collection holds it.
C24_MapNoLeak ==
    /\ (last.op = "removeNode" /\ phase = "running") => freed[last.node] = 1
    /\ \A n \in Allocated : freed[n] = 0 => n \in Handles

----------------------------------------------------------------------------
\* C25: immediately after a Layout is constructed its collection holds
\* exactly one node, the root; the root is valid, has no parent and no
\* children, has width 100% and height 100%, and the point scale factor of
\* the config is 1.
C25_FreshLayout ==
    (last.op = "Layout" /\ phase = "running") =>
        LET nodes == IF others = NoLayout THEN _nodes ELSE others.nodes
            root == last.ret
        IN /\ Len(nodes) = 1
           /\ nodes[1].ygNode = root
           /\ Node_bool(root)
           /\ freed[root] = 0
           /\ getParent(Store, root) = NULL
           /\ getChildCount(Store, root) = 0
           /\ getWidth(Store, root) = [value |-> 100, unit |-> "Percent"]
           /\ getHeight(Store, root) = [value |-> 100, unit |-> "Percent"]
           /\ _config.pointScaleFactor = 1
           /\ others = NoLayout => _root = root

\* a second Layout has just been constructed next to a first one that has
\* already created nodes
C25_Witness ==
    /\ last.op = "Layout"
    /\ phase = "running"
    /\ others # NoLayout
    /\ Len(others.nodes) = 1
    /\ Len(_nodes) > 1

----------------------------------------------------------------------------
----------------------------------------------------------------------------
\* C27: removeNode(N) of a valid non-root node never fails an assertion and
\* never passes an invalid handle to its recursive call, whatever the
\* number of N's children: each of N's original children is obtained
\* exactly once, as a valid handle.
C27_RemoveNodeLoopSafe ==
    [][(/\ last'.op = "removeNode"
        /\ Node_bool(last'.node)
        /\ _root \notin Subtree(Store, last'.node))
       => (/\ phase' = "running"
           /\ <<"call", NULL>> \notin Range(last'.log)
           /\ \A c \in Range(children[last'.node]) :
                Cardinality({k \in 1..Len(last'.log) :
                                last'.log[k] = <<"call", c>>}) = 1)]_vars

----------------------------------------------------------------------------
\* C28: within one removeNode(N) call on a tree, N is detached from its
\* parent (if it has one) before anything else; the child subtrees are
\* torn down after that; an engine node is freed only after all the nodes
\* that were below it have been freed, and N's own is the last one freed.
C28_RemoveOrder ==
    [][(/\ last'.op = "removeNode"
        /\ Node_bool(last'.node)
        /\ last'.node # _root
        /\ last'.node \notin Descendants(Store, last'.node))
       => LET N == last'.node
              log == last'.log
          IN /\ Len(log) >= 1
             /\ log[1] = <<"call", N>>
             /\ owner[N] # NULL => Len(log) >= 2 /\ log[2] = <<"detach", N>>
             /\ owner[N] = NULL => <<"detach", N>> \notin Range(log)
             /\ \A k \in 1..Len(log) :
                   log[k][1] = "free" =>
                      \A d \in Descendants(Store, log[k][2]) :
                         \E j \in 1..(k - 1) : log[j] = <<"free", d>>
             /\ \A k \in 1..Len(log) :
                   log[k] = <<"free", N>> => k = Len(log)
             /\ phase' = "running" => log[Len(log)] = <<"free", N>>]_vars

\* a node with a parent, a child and a grandchild has been removed
C28_Witness ==
    /\ last.op = "removeNode"
    /\ phase = "running"
    /\ Len(last.log) >= 2
    /\ last.log[2] = <<"detach", last.node>>
    /\ Cardinality({k \in 1..Len(last.log) : last.log[k][1] = "free"}) = 3
    /\ last.log[Len(last.log)] = <<"free", last.node>>

----------------------------------------------------------------------------
\* C29: after removeNode(N) returns, no live node has a freed node as its
\* parent or in its child list: N's former parent has one child fewer, the
\* others in their previous order, and every node still in the collection
\* refers only to nodes still in the collection.
C29_NoDanglingLinks ==
    [][(/\ last'.op = "removeNode"
        /\ Node_bool(last'.node)
        /\ phase' = "running")
       => LET N == last'.node
              P == owner[N]
              live == Held(Store')
          IN /\ N \notin live
             /\ (P # NULL /\ P \in live) =>
                   /\ children'[P] = RemoveFirst(children[P], N)
                   /\ Len(children'[P]) = Len(children[P]) - 1
             /\ \A n \in live :
                   /\ freed'[n] = 0
                   /\ owner'[n] \in live \cup {NULL}
                   /\ Range(children'[n]) \subseteq live]_vars

\* a child of the root has been removed and two of its siblings remain
C29_Witness ==
    /\ last.op = "removeNode"
    /\ phase = "running"
    /\ Node_bool(last.node)
    /\ freed[last.node] = 1
    /\ <<"detach", last.node>> \in Range(last.log)
    /\ children[_root] = <<3, 4>> \/ children[_root] = <<4, 2>>
    /\ last.node \in 2..3

----------------------------------------------------------------------------
\* C30: the storage location of a live node's context, which a reference
\* obtained from getContext() designates, does not change when other nodes
\* are created with createNode or removed with removeNode.
C30_ContextAddressStable ==
    [][(last'.op \in {"createNode", "removeNode"} /\ phase' = "running")
       => \A n \in Held(Store) \cap Held(Store') :
             getContext(Store', n) = getContext(Store, n)]_vars

----------------------------------------------------------------------------
\* C31: the child sequence is evaluated live.  Dereferencing a ChildIterator
\* at position i yields what getChild(i) returns at that moment (an invalid
\* handle when i is by then out of range), whatever the children were when
\* getChildren() was called; the end position is the child count at the
\* moment end() is called and is not updated afterwards; begin() called
\* again restarts at position 0.
C31_LiveView ==
    [][/\ last'.op = "*" =>
            /\ last'.index = iter'.index
            /\ last'.ret = getChild(Store', iter'.node, iter'.index)
            /\ iter'.index >= Len(children'[iter'.node]) => ~ Node_bool(last'.ret)
            /\ iter'.index < Len(children'[iter'.node]) =>
                   last'.ret = children'[iter'.node][iter'.index + 1]
       /\ last'.op \in {"begin", "end"} => iter'.end = getChildCount(Store', iter'.node)
       /\ last'.op \in {"begin", "restart"} => iter'.index = 0
       /\ last'.op \notin {"begin", "end"} => iter'.end = iter.end
       /\ last'.op \notin {"begin", "restart", "++"} => iter'.index = iter.index]_vars

\* an iterator inside the range that was taken with it yields an invalid
\* handle, the children having been removed since
C31_Witness ==
    /\ last.op = "*"
    /\ phase = "running"
    /\ iter.index = 1
    /\ iter.end = 2
    /\ Len(children[iter.node]) = 1
    /\ ~ Node_bool(last.ret)

----------------------------------------------------------------------------
\* C32: every call removeNode(N) on a valid non-root node ends, and it
\* invokes itself at most once for each node of the subtree rooted at N:
\* no node is passed to removeNode twice, every node passed is in N's
\* subtree, and the invocations are no more than the subtree has nodes.
C32_RemoveNodeBounded ==
    [][(/\ last'.op = "removeNode"
        /\ Node_bool(last'.node)
        /\ last'.node # _root)
       => LET N == last'.node
              calls == SelectSeq(last'.log, LAMBDA ev : ev[1] = "call")
          IN /\ phase' \in {"running", "aborted"}
             /\ calls[1] = <<"call", N>>
             /\ \A j, k \in 1..Len(calls) : calls[j] = calls[k] => j = k
             /\ \A k \in 1..Len(calls) :
                   Node_bool(calls[k][2]) => calls[k][2] \in Subtree(Store, N)
             /\ Len(calls) <= Cardinality(Subtree(Store, N))]_vars

\* a node with a child and a grandchild has been removed: three invocations
C32_Witness ==
    /\ last.op = "removeNode"
    /\ phase = "running"
    /\ Len(SelectSeq(last.log, LAMBDA ev : ev[1] = "call")) = 3
    /\ Len(SelectSeq(last.log, LAMBDA ev : ev[1] = "free")) = 3

----------------------------------------------------------------------------
\* C33: removeNode(N) affects only N's subtree and N's former parent.  Every
\* node outside the subtree stays in the collection, held once, with its
\* context value, its parent and its child list (N leaving its former
\* parent's list); the remaining elements keep their relative order and
\* the first element stays first.
C33_RemoveNodeFrame ==
    [][(/\ last'.op = "removeNode"
        /\ Node_bool(last'.node)
        /\ last'.node # _root)
       => LET N == last'.node
              out == Held(Store) \ Subtree(Store, N)
              before == SelectSeq(_nodes, LAMBDA el : el.ygNode \in out)
              after == SelectSeq(_nodes', LAMBDA el : el.ygNode \in out)
          IN /\ \A m \in out :
                   /\ Holders(Store', m) = 1
                   /\ freed'[m] = 0
                   /\ ContextOf(Store', m) = ContextOf(Store, m)
                   /\ Len(ContextOf(Store', m)) = 1
                   /\ owner'[m] = owner[m]
                   /\ children'[m] = IF m = owner[N]
                                      THEN RemoveFirst(children[m], N)
                                      ELSE children[m]
             /\ [k \in 1..Len(after) |-> after[k].ygNode]
                   = [k \in 1..Len(before) |-> before[k].ygNode]
             /\ _nodes'[1].ygNode = _nodes[1].ygNode]_vars

\* a node has been removed from the middle of the collection: a node created
\* after it, whose context had been written, was shifted down
C33_Witness ==
    /\ last.op = "removeNode"
    /\ phase = "running"
    /\ Node_bool(last.node)
    /\ <<"detach", last.node>> \in Range(last.log)
    /\ \E k \in 2..Len(_nodes) :
          /\ _nodes[k].ygNode > last.node
          /\ _nodes[k].ctx # DefaultCtx

----------------------------------------------------------------------------
\* C34: on a valid node P, insertChild(child), insertChild(child, index) and
\* removeChild(child) with an invalid child handle return without failing
\* and without calling the engine: no child list, parent link or child
\* count changes.
C34_NullChildNoop ==
    [][(/\ last'.op \in {"insertChildLast", "insertChild", "removeChild"}
        /\ Node_bool(last'.node)
        /\ ~ Node_bool(last'.child))
       => /\ phase' = "running"
          /\ last'.log = <<>>
          /\ children' = children
          /\ owner' = owner
          /\ getChildCount(Store', last'.node) = getChildCount(Store, last'.node)
          /\ UNCHANGED <<context, freed, next, _nodes, buf, cap, style>>]_vars

\* insertChild(null, i) has been called on a node that has children, with an
\* index inside its child list
C34_Witness ==
    /\ last.op = "insertChild"
    /\ phase = "running"
    /\ Node_bool(last.node)
    /\ ~ Node_bool(last.child)
    /\ Len(children[last.node]) = 2
    /\ last.index = 1

----------------------------------------------------------------------------
\* C36: every engine config a Config allocates is freed exactly once over
\* any sequence of constructions, moves and destructions: an allocated
\* config is either unfreed and held by exactly one Config, or freed once
\* and held by none.  A moved-from Config holds no config, move assignment
\* frees the config the destination held, and the context slot of a config
\* refers to the Config that holds it.
C36_ConfigFreedOnce ==
    /\ \A c \in ConfigIds :
          /\ c >= configs.next => configs.freed[c] = 0 /\ ConfigHolders(c) = {}
          /\ c < configs.next =>
                /\ configs.freed[c] <= 1
                /\ Cardinality(ConfigHolders(c)) = 1 - configs.freed[c]
    /\ \A p \in Places :
          /\ ~ cfgObjs[p].live => cfgObjs[p].ygConfig = NULL
          /\ cfgObjs[p].ygConfig # NULL =>
                configs.context[cfgObjs[p].ygConfig] = p
    /\ (last.op \in {"Config&&", "Config="} /\ last.node # last.child) =>
          /\ cfgObjs[last.child].ygConfig = NULL
          /\ cfgObjs[last.node].ygConfig = last.ret
    /\ (last.op = "Config=" /\ last.node # last.child /\ last.index # NULL) =>
          configs.freed[last.index] = 1
    /\ (last.op = "~Config" /\ last.index # NULL) => configs.freed[last.index] = 1

\* a Config holding a config has been move-assigned from another one
\* holding a config
C36_Witness ==
    /\ last.op = "Config="
    /\ last.node # last.child
    /\ last.index # NULL
    /\ last.ret # NULL
    /\ configs.freed[last.index] = 1
    /\ configs.context[last.ret] = last.node

----------------------------------------------------------------------------
\* C35: the config of a Layout outlives every node created against it: in
\* no reachable state is an engine node still allocated while the config it
\* was created with has been freed.
C35_ConfigOutlivesNodes ==
    \A n \in Allocated :
       freed[n] = 0 =>
          /\ configs.of[n] # NULL
          /\ configs.freed[configs.of[n]] = 0

====
